---------------------------- MODULE Spec2Model ----------------------------
(***************************************************************************)
(* A model of app.py, the CKPI Multi-KPI Analyzer: the threshold catalog,  *)
(* the local-extrema detector detect_peaks_lows, the per-(KPI, floor)      *)
(* aggregation loop that fills kpi_summary, and the actionable-insights    *)
(* loop that fills report_rows.                                            *)
(*                                                                         *)
(* Number representation.  Python floats are modelled by exact integers:   *)
(* measurement values and thresholds of the catalog are in thousandths     *)
(* (30.0 is 30000, 0.029 is 29), the sensitivity std_factor is in tenths   *)
(* (1.0 is 10).  A float that may be absent (None for a threshold, NaN for *)
(* a measurement) is the empty tuple << >>, a present number v is <<v>>.   *)
(* Comparisons against mean +- std_factor*std are carried out exactly in   *)
(* the rationals (see AboveUpperStat); binary rounding of the floats is    *)
(* not modelled.                                                           *)
(*                                                                         *)
(* Strings whose case matters (KPI names) are tuples of one-character      *)
(* strings, so that str.lower() is computed character by character.        *)
(***************************************************************************)
EXTENDS Integers, Sequences, FiniteSets

VARIABLES
    pc,             \* position of the script
    df_filtered,    \* rows left by the sidebar filters (line 134)
    selected_kpis,  \* the KPI multiselect's result (line 111)
    std_factor,     \* the sensitivity slider, in tenths (line 131)
    kpi_i,          \* position of "for kpi_name in selected_kpis" (line 147)
    df_kpi,         \* rows of the current KPI (line 148)
    floors,         \* sorted floors of the current KPI (line 155)
    floor_i,        \* position of "for i, floor in enumerate(floors)" (line 156)
    df_floor,       \* rows of the current (KPI, floor) group, sorted (line 157)
    values,         \* the detector's argument: df_floor[ave_col].values
    low_thresh,     \* thresholds handed to the detector (line 169)
    high_thresh,
    peaks,          \* the detector's result (line 170)
    lows,
    kpi_summary,    \* line 146
    rec_i,          \* position of "for rec in kpi_summary" (line 213)
    report_rows     \* line 206

vars == <<pc, df_filtered, selected_kpis, std_factor, kpi_i, df_kpi, floors,
          floor_i, df_floor, values, low_thresh, high_thresh, peaks, lows,
          kpi_summary, rec_i, report_rows>>

----------------------------------------------------------------------------
(* Optional floats *)

None == << >>
NaN == << >>
Some(v) == <<v>>
Val(x) == x[1]
isnan(x) == x = NaN

Range(s) == {s[k] : k \in 1..Len(s)}
SeqsUpTo(n, S) == UNION {[1..k -> S] : k \in 0..n}

----------------------------------------------------------------------------
(* str.lower() *)

UpperCase == <<"A","B","C","D","E","F","G","H","I","J","K","L","M",
               "N","O","P","Q","R","S","T","U","V","W","X","Y","Z">>
LowerCase == <<"a","b","c","d","e","f","g","h","i","j","k","l","m",
               "n","o","p","q","r","s","t","u","v","w","x","y","z">>

\* the lower-case letter of every upper-case letter
to_lower ==
    [c \in Range(UpperCase) |->
        LowerCase[CHOOSE k \in 1..Len(UpperCase) : UpperCase[k] = c]]

lower_char(c) == IF c \in DOMAIN to_lower THEN to_lower[c] ELSE c

lower(s) == [k \in 1..Len(s) |-> lower_char(s[k])]

----------------------------------------------------------------------------
(* KPI_THRESHOLDS, lines 13-20 *)

doorfriction == <<"d","o","o","r","f","r","i","c","t","i","o","n">>
cumulativeDoorSpeedError ==
    <<"c","u","m","u","l","a","t","i","v","e","D","o","o","r",
      "S","p","e","e","d","E","r","r","o","r">>
lockHookClosingTime ==
    <<"l","o","c","k","H","o","o","k","C","l","o","s","i","n","g","T","i","m","e">>
lockHookTime == <<"l","o","c","k","H","o","o","k","T","i","m","e">>
maximumForceDuringCompress ==
    <<"m","a","x","i","m","u","m","F","o","r","c","e","D","u","r","i","n","g",
      "C","o","m","p","r","e","s","s">>
landingDoorLockRollerClearance ==
    <<"l","a","n","d","i","n","g","D","o","o","r","L","o","c","k","R","o","l",
      "l","e","r","C","l","e","a","r","a","n","c","e">>

\* the dict's items in insertion order: <<key, <<low, high>>>>, in thousandths
KPI_THRESHOLDS ==
    << <<doorfriction,                   <<Some(30000), Some(50000)>> >>,
       <<cumulativeDoorSpeedError,       <<Some(50),    Some(80)>> >>,
       <<lockHookClosingTime,            <<Some(200),   Some(600)>> >>,
       <<lockHookTime,                   <<Some(300),   None>> >>,
       <<maximumForceDuringCompress,     <<Some(5000),  Some(28000)>> >>,
       <<landingDoorLockRollerClearance, <<None,        Some(29)>> >> >>

\* dict.get(key, default): exact (case-sensitive) key comparison
dict_get(d, key, default) ==
    IF \E k \in 1..Len(d) : d[k][1] = key
    THEN d[CHOOSE k \in 1..Len(d) : d[k][1] = key][2]
    ELSE default

\* kpi_list = list(KPI_THRESHOLDS.keys()), line 110
kpi_list == [k \in 1..Len(KPI_THRESHOLDS) |-> KPI_THRESHOLDS[k][1]]


----------------------------------------------------------------------------
(* detect_peaks_lows, lines 40-56 *)

\* arr[i] for a 0-based index i; a negative index counts from the end
At(arr, i) == IF i < 0 THEN arr[Len(arr) + i + 1] ELSE arr[i + 1]

\* np.isnan(arr).all()
isnan_all(arr) == \A k \in 1..Len(arr) : isnan(arr[k])

RECURSIVE nansum(_, _, _)
\* the sum of x^power over the entries of arr[1..k] that are not NaN
nansum(arr, k, power) ==
    IF k = 0 THEN 0
    ELSE nansum(arr, k - 1, power)
         + (IF isnan(arr[k]) THEN 0
            ELSE IF power = 2 THEN Val(arr[k]) * Val(arr[k])
            ELSE IF power = 1 THEN Val(arr[k]) ELSE 1)

\* np.nanmean(arr), np.nanstd(arr) (line 46) as exact rationals:
\*   mean = sum / cnt,  std = sqrt(dev) / cnt  with dev = cnt*sum(x^2) - sum^2
nanstats(arr) ==
    LET cnt == nansum(arr, Len(arr), 0)
        sum == nansum(arr, Len(arr), 1)
        sq  == nansum(arr, Len(arr), 2)
    IN  [cnt |-> cnt, sum |-> sum, dev |-> cnt * sq - sum * sum]

\* as AboveUpperStat with the variance in the place of std:
\*   b > sum/cnt + (f/10)*dev/cnt^2
AboveUpperStatVar(b, st, f) ==
    10 * st.cnt * (st.cnt * b - st.sum) > f * st.dev

\* b > upper_stat, upper_stat = mean + std_factor*std (lines 47, 52), f in tenths:
\*   b > sum/cnt + (f/10)*sqrt(dev)/cnt  <=>  10*(cnt*b - sum) > f*sqrt(dev)
AboveUpperStat(b, st, f) ==
    LET x == 10 * (st.cnt * b - st.sum)
    IN  x > 0 /\ x * x > f * f * st.dev

\* b < lower_stat, lower_stat = mean - std_factor*std (lines 47, 54)
BelowLowerStat(b, st, f) ==
    LET x == 10 * (st.sum - st.cnt * b)
    IN  x > 0 /\ x * x > f * f * st.dev

\* as IsPeak with "and" between the two tests of abnormality
IsPeakAnd(a, b, c, high, st, f) ==
    /\ Val(b) > Val(a) /\ Val(b) > Val(c)
    /\ (high # None /\ Val(b) > Val(high)) /\ AboveUpperStat(Val(b), st, f)

\* line 52
IsPeak(a, b, c, high, st, f) ==
    /\ Val(b) > Val(a) /\ Val(b) > Val(c)
    /\ \/ (high # None /\ Val(b) > Val(high))
       \/ AboveUpperStat(Val(b), st, f)

\* line 54
IsLow(a, b, c, low, st, f) ==
    /\ Val(b) < Val(a) /\ Val(b) < Val(c)
    /\ \/ (low # None /\ Val(b) < Val(low))
       \/ BelowLowerStat(Val(b), st, f)

RECURSIVE detect_loop(_, _, _, _, _, _, _)
\* "for i in range(1, n-1)" from index i on, with the lists built so far
detect_loop(i, arr, low, high, st, f, acc) ==
    IF i > Len(arr) - 2 THEN acc
    ELSE LET a == At(arr, i - 1)
             b == At(arr, i)
             c == At(arr, i + 1)
             found ==
                 IF isnan(b) THEN acc
                 ELSE IF ~isnan(a) /\ ~isnan(c)
                 THEN << IF IsPeak(a, b, c, high, st, f)
                         THEN Append(acc[1], i) ELSE acc[1],
                         IF IsLow(a, b, c, low, st, f)
                         THEN Append(acc[2], i) ELSE acc[2] >>
                 ELSE acc
         IN  detect_loop(i + 1, arr, low, high, st, f, found)

\* range(n-1) in the place of range(1, n-1)
detect_range_from0(arr) == 0

\* where range(1, n-1) starts (line 48)
detect_range_start(arr) == 1

\* the early return's test (line 44)
detect_too_short(arr) == Len(arr) < 3 \/ isnan_all(arr)

\* as detect_peaks_lows without the early return of lines 44-45 and with
\* range(n-1) in the place of range(1, n-1)
detect_peaks_lows_unguarded(arr, low, high, f) ==
    detect_loop(0, arr, low, high, nanstats(arr), f, << <<>>, <<>> >>)

\* returns <<peaks, lows>>, 0-based indices
detect_peaks_lows(arr, low, high, f) ==
    IF detect_too_short(arr) THEN << <<>>, <<>> >>
    ELSE detect_loop(detect_range_start(arr), arr, low, high, nanstats(arr), f,
                     << <<>>, <<>> >>)

----------------------------------------------------------------------------
(* The aggregation loop ("KPI Graphs"), lines 146-202 *)

\* A row of the data frame: [ckpi, floor, date, ave]; ckpi is a name as the
\* file spells it, ave an optional float in thousandths.

\* as kpi_rows with the names compared as they are spelled
kpi_rows_exact(df, kpi_name) ==
    LET match(r) == r.ckpi = kpi_name IN SelectSeq(df, match)

\* df_filtered[df_filtered[ckpi_col].str.lower() == kpi_name.lower()], line 148
kpi_rows(df, kpi_name) ==
    LET wanted == lower(kpi_name)
        match(r) == lower(r.ckpi) = wanted
    IN  SelectSeq(df, match)

RECURSIVE sorted_seq(_)
\* sorted(S) for a finite set of integers
sorted_seq(S) ==
    IF S = {} THEN << >>
    ELSE LET least == CHOOSE x \in S : \A y \in S : x <= y
         IN  <<least>> \o sorted_seq(S \ {least})

\* sorted(df_kpi[floor_col].dropna().unique()), line 155 (the floor filter of
\* line 136 leaves no row without a floor)
unique_floors(df) == sorted_seq({df[k].floor : k \in 1..Len(df)})

\* df_kpi[df_kpi[floor_col] == floor], line 157
floor_rows(df, floor) ==
    LET match(r) == r.floor = floor IN SelectSeq(df, match)

\* the orders of rows 1..n a sort may produce
Permutations1(n) == {p \in [1..n -> 1..n] : \A i, j \in 1..n : p[i] = p[j] => i = j}

\* .sort_values(date_col), line 157.  pandas sorts with kind="quicksort" unless
\* told otherwise, which orders by the key and promises nothing about rows with
\* equal keys: every order that is ascending in the date is a possible result.
sort_values(df) ==
    { [k \in 1..Len(df) |-> df[p[k]]] :
        p \in { q \in Permutations1(Len(df)) :
                  \A i, j \in 1..Len(df) : i < j => df[q[i]].date <= df[q[j]].date } }

\* df_floor[ave_col].values, line 170
ave_values(df) == [k \in 1..Len(df) |-> df[k].ave]

\* KPI_THRESHOLDS.get(kpi_name.lower(), (None, None)), line 169
lookup_thresholds(kpi_name) ==
    dict_get(KPI_THRESHOLDS, lower(kpi_name), <<None, None>>)

\* the dict appended to kpi_summary, lines 187-193
summary_rec(kpi_name, floor, pk, lw, df) ==
    [kpi |-> kpi_name, floor |-> floor,
     peaks |-> Len(pk), lows |-> Len(lw), rows |-> Len(df)]

----------------------------------------------------------------------------
(* The actionable-insights loop, lines 206-222 *)

NoneStr == "None"

solution_map ==
    <<"Follow solution 1", "Follow solution 2", "This is the reason for the error">>

\* solution_map.get(key): the entry, or None for a key the dict lacks
solution_get(key) ==
    IF key \in DOMAIN solution_map THEN solution_map[key] ELSE NoneStr

\* as is_actionable with >= in the place of >
is_actionable_ge(rec) == 10 * (rec.peaks + rec.lows) >= rec.rows * 2

\* rec['peaks'] + rec['lows'] > rec['rows']*0.2, line 214: c > rows * 2/10.
\* (for integers c and rows the float product rows*0.2 compares with c as the
\* exact product does)
is_actionable(rec) == 10 * (rec.peaks + rec.lows) > rec.rows * 2

\* as remedy_code without the + 1
remedy_code_from0(rec) == (rec.peaks + rec.lows) % 3

\* (rec['peaks']+rec['lows'])%3+1, line 219
remedy_code(rec) == ((rec.peaks + rec.lows) % 3) + 1

\* the dict appended to report_rows, lines 215-220
report_row(rec) ==
    [KPI |-> rec.kpi, Floor |-> rec.floor,
     Action |-> "High uncertainty -> Technician check",
     Remedy |-> solution_get(remedy_code(rec))]

\* as append_row with the new row put first
prepend_row(rows, rec) == <<report_row(rec)>> \o rows

\* report_rows.append({...}), line 215
append_row(rows, rec) == Append(rows, report_row(rec))

----------------------------------------------------------------------------
(* Bounds and input domains *)

MaxRows == 3        \* rows of df_filtered
MaxLen == 5         \* length of a series handed to the detector on its own
MaxGroupRows == 5   \* rows of one (KPI, floor) group behind a summary
MaxSummaries == 3   \* entries of kpi_summary at the start of the insights loop

DOORFRICTION == <<"D","O","O","R","F","R","I","C","T","I","O","N">>

\* the options of the KPI multiselect that the model selects from
KpiChoices == {doorfriction, lockHookTime}
\* positions of the sensitivity slider (0.5 .. 3.0), in tenths
SliderValues == {5, 10, 30}
\* the slider's default position, 1.0 (line 131)
DefaultFactor == 10

\* the (ckpi, floor) columns of the rows of the file, the KPI as the file spells it
Sites == {<<doorfriction, 1>>, <<DOORFRICTION, 1>>, <<doorfriction, 2>>,
          <<lockHookTime, 2>>}
\* the (date, ave) columns of the rows of the file
Readings == {<<1, Some(0)>>, <<2, Some(100)>>, <<3, Some(0)>>, <<3, Some(100)>>}
Floors == {st[2] : st \in Sites}
AveValues == {rd[2] : rd \in Readings}

\* position of a name in kpi_list
list_index(nm) == CHOOSE k \in 1..Len(kpi_list) : kpi_list[k] = nm

\* what the multiselect may return: one or more of the options, none twice; the
\* model picks them in the order of the list
Selections ==
    {sel \in SeqsUpTo(Cardinality(KpiChoices), KpiChoices) :
        /\ Len(sel) >= 1
        /\ \A i, j \in 1..Len(sel) : i < j => list_index(sel[i]) < list_index(sel[j])}

\* the rows that pass the KPI filter of line 137
RowsFor(sel) ==
    {[ckpi |-> st[1], floor |-> st[2], date |-> rd[1], ave |-> rd[2]] :
        st \in {x \in Sites : \E k \in 1..Len(sel) : lower(x[1]) = lower(sel[k])},
        rd \in Readings}

\* values, thresholds for the detector on its own
DetectValues == {NaN, Some(1), Some(5), Some(10)}
LowChoices == {None, Some(3)}
HighChoices == {None, Some(7)}

----------------------------------------------------------------------------
(* The script from line 146 on *)

Init ==
    /\ pc = "kpi_loop"
    /\ selected_kpis \in Selections
    /\ df_filtered \in SeqsUpTo(MaxRows, RowsFor(selected_kpis)) \ {<< >>}
    /\ std_factor = DefaultFactor
    /\ kpi_i = 1
    /\ df_kpi = << >>
    /\ floors = << >>
    /\ floor_i = 0
    /\ df_floor = << >>
    /\ values = << >>
    /\ low_thresh = None
    /\ high_thresh = None
    /\ peaks = << >>
    /\ lows = << >>
    /\ kpi_summary = << >>
    /\ rec_i = 0
    /\ report_rows = << >>

\* lines 147-151: a selected KPI without rows is reported and skipped
KpiNoData ==
    /\ pc = "kpi_loop"
    /\ kpi_i <= Len(selected_kpis)
    /\ kpi_rows(df_filtered, selected_kpis[kpi_i]) = << >>
    /\ kpi_i' = kpi_i + 1
    /\ UNCHANGED <<pc, df_filtered, selected_kpis, std_factor, df_kpi, floors,
                   floor_i, df_floor, values, low_thresh, high_thresh, peaks,
                   lows, kpi_summary, rec_i, report_rows>>

\* lines 147-156: a selected KPI with rows; its floors
KpiBegin ==
    /\ pc = "kpi_loop"
    /\ kpi_i <= Len(selected_kpis)
    /\ kpi_rows(df_filtered, selected_kpis[kpi_i]) # << >>
    /\ df_kpi' = kpi_rows(df_filtered, selected_kpis[kpi_i])
    /\ floors' = unique_floors(df_kpi')
    /\ floor_i' = 1
    /\ pc' = "floor_loop"
    /\ UNCHANGED <<df_filtered, selected_kpis, std_factor, kpi_i, df_floor,
                   values, low_thresh, high_thresh, peaks, lows, kpi_summary,
                   rec_i, report_rows>>

\* lines 156-193: one floor of the current KPI
FloorGroup ==
    /\ pc = "floor_loop"
    /\ floor_i <= Len(floors)
    /\ \E sorted \in sort_values(floor_rows(df_kpi, floors[floor_i])) :
          /\ df_floor' = sorted
          /\ IF sorted = << >>
             THEN UNCHANGED <<values, low_thresh, high_thresh, peaks, lows,
                              kpi_summary>>
             ELSE LET th == lookup_thresholds(selected_kpis[kpi_i])
                      found == detect_peaks_lows(ave_values(sorted), th[1], th[2],
                                                 std_factor)
                  IN  /\ values' = ave_values(sorted)
                      /\ low_thresh' = th[1]
                      /\ high_thresh' = th[2]
                      /\ peaks' = found[1]
                      /\ lows' = found[2]
                      /\ kpi_summary' =
                            Append(kpi_summary,
                                   summary_rec(selected_kpis[kpi_i], floors[floor_i],
                                               found[1], found[2], sorted))
    /\ floor_i' = floor_i + 1
    /\ UNCHANGED <<pc, df_filtered, selected_kpis, std_factor, kpi_i, df_kpi,
                   floors, rec_i, report_rows>>

\* lines 195-202: the floors of the current KPI are done
KpiEnd ==
    /\ pc = "floor_loop"
    /\ floor_i > Len(floors)
    /\ kpi_i' = kpi_i + 1
    /\ pc' = "kpi_loop"
    /\ UNCHANGED <<df_filtered, selected_kpis, std_factor, df_kpi, floors,
                   floor_i, df_floor, values, low_thresh, high_thresh, peaks,
                   lows, kpi_summary, rec_i, report_rows>>

\* lines 205-211: every selected KPI is done
InsightsBegin ==
    /\ pc = "kpi_loop"
    /\ kpi_i > Len(selected_kpis)
    /\ report_rows' = << >>
    /\ rec_i' = 1
    /\ pc' = "insights"
    /\ UNCHANGED <<df_filtered, selected_kpis, std_factor, kpi_i, df_kpi, floors,
                   floor_i, df_floor, values, low_thresh, high_thresh, peaks,
                   lows, kpi_summary>>

\* lines 213-220: one entry of kpi_summary
InsightRec ==
    /\ pc = "insights"
    /\ rec_i <= Len(kpi_summary)
    /\ report_rows' = IF is_actionable(kpi_summary[rec_i])
                      THEN append_row(report_rows, kpi_summary[rec_i])
                      ELSE report_rows
    /\ rec_i' = rec_i + 1
    /\ UNCHANGED <<pc, df_filtered, selected_kpis, std_factor, kpi_i, df_kpi,
                   floors, floor_i, df_floor, values, low_thresh, high_thresh,
                   peaks, lows, kpi_summary>>

\* lines 222-231: the report is shown
InsightsEnd ==
    /\ pc = "insights"
    /\ rec_i > Len(kpi_summary)
    /\ pc' = "done"
    /\ UNCHANGED <<df_filtered, selected_kpis, std_factor, kpi_i, df_kpi, floors,
                   floor_i, df_floor, values, low_thresh, high_thresh, peaks,
                   lows, kpi_summary, rec_i, report_rows>>

Next ==
    \/ KpiNoData
    \/ KpiBegin
    \/ FloorGroup
    \/ KpiEnd
    \/ InsightsBegin
    \/ InsightRec
    \/ InsightsEnd

Spec == Init /\ [][Next]_vars

----------------------------------------------------------------------------
(* detect_peaks_lows on its own: one call on bounded arguments *)

InitDetect ==
    /\ pc = "detect_call"
    /\ values \in SeqsUpTo(MaxLen, DetectValues)
    /\ low_thresh \in LowChoices
    /\ high_thresh \in HighChoices
    /\ std_factor \in SliderValues
    /\ peaks = << >>
    /\ lows = << >>
    /\ df_filtered = << >>
    /\ selected_kpis = << >>
    /\ kpi_i = 0
    /\ df_kpi = << >>
    /\ floors = << >>
    /\ floor_i = 0
    /\ df_floor = << >>
    /\ kpi_summary = << >>
    /\ rec_i = 0
    /\ report_rows = << >>

DetectCall ==
    /\ pc = "detect_call"
    /\ LET found == detect_peaks_lows(values, low_thresh, high_thresh, std_factor)
       IN  peaks' = found[1] /\ lows' = found[2]
    /\ pc' = "detect_return"
    /\ UNCHANGED <<df_filtered, selected_kpis, std_factor, kpi_i, df_kpi, floors,
                   floor_i, df_floor, values, low_thresh, high_thresh,
                   kpi_summary, rec_i, report_rows>>

NextDetect == DetectCall

SpecDetect == InitDetect /\ [][NextDetect]_vars

----------------------------------------------------------------------------
(* The actionable-insights loop on its own: it starts from every kpi_summary  *)
(* the aggregation loop can leave behind for groups of up to MaxGroupRows     *)
(* rows, up to MaxSummaries groups                                            *)

\* for each KPI, the <<peaks, lows, rows>> the aggregation loop records for some
\* group of it at the default sensitivity: the detector's counts on every series
\* of 1..MaxGroupRows readings
group_counts ==
    [nm \in KpiChoices |->
        LET th == lookup_thresholds(nm)
        IN  { LET found == detect_peaks_lows(v, th[1], th[2], DefaultFactor)
              IN  <<Len(found[1]), Len(found[2]), Len(v)>> :
                  v \in SeqsUpTo(MaxGroupRows, AveValues) \ {<< >>} }]

\* the (KPI, floor) keys in the order the loops of lines 147 and 156 visit them
group_keys(sel, fl) ==
    [k \in 1..(Len(sel) * Len(fl)) |->
        <<sel[((k - 1) \div Len(fl)) + 1], fl[((k - 1) % Len(fl)) + 1]>>]

InitInsights ==
    /\ pc = "insights"
    /\ selected_kpis \in Selections
    /\ std_factor = DefaultFactor
    /\ \E present \in SUBSET (1..(Len(selected_kpis) * Cardinality(Floors))) :
          /\ present # {}
          /\ Cardinality(present) <= MaxSummaries
          /\ LET keys == group_keys(selected_kpis, sorted_seq(Floors))
                 at == sorted_seq(present)
             IN  \E counts \in [1..Len(at) ->
                                  UNION {group_counts[nm] : nm \in KpiChoices}] :
                    /\ \A k \in 1..Len(at) :
                          counts[k] \in group_counts[keys[at[k]][1]]
                    /\ kpi_summary =
                          [k \in 1..Len(at) |->
                              [kpi |-> keys[at[k]][1], floor |-> keys[at[k]][2],
                               peaks |-> counts[k][1], lows |-> counts[k][2],
                               rows |-> counts[k][3]]]
    /\ rec_i = 1
    /\ report_rows = << >>
    /\ df_filtered = << >>
    /\ kpi_i = Len(selected_kpis) + 1
    /\ df_kpi = << >>
    /\ floors = << >>
    /\ floor_i = 0
    /\ df_floor = << >>
    /\ values = << >>
    /\ low_thresh = None
    /\ high_thresh = None
    /\ peaks = << >>
    /\ lows = << >>

NextInsights ==
    \/ InsightRec
    \/ InsightsEnd

SpecInsights == InitInsights /\ [][NextInsights]_vars

----------------------------------------------------------------------------
(* Properties of detect_peaks_lows, checked under SpecDetect *)

\* the 0-based indices of the entries of v that are present
PresentAt(v) == {i \in 0..(Len(v) - 1) : v[i + 1] # NaN}

RECURSIVE SumOf(_, _)
\* the sum of the function t over its finite domain restricted to D
SumOf(t, D) ==
    IF D = {} THEN 0
    ELSE LET d == CHOOSE x \in D : TRUE IN t[d] + SumOf(t, D \ {d})

\* cnt * (b - mean), mean the mean of the present values of v
DistFromMean(b, v) ==
    SumOf([i \in PresentAt(v) |-> b - Val(v[i + 1])], PresentAt(v))

\* cnt^2 * variance, the population variance of the present values of v, as the
\* sum of the squared differences of every pair of them
PairSpread(v) ==
    LET pairs == {pr \in PresentAt(v) \X PresentAt(v) : pr[1] < pr[2]}
    IN  SumOf([pr \in pairs |->
                  (Val(v[pr[1] + 1]) - Val(v[pr[2] + 1]))
                  * (Val(v[pr[1] + 1]) - Val(v[pr[2] + 1]))], pairs)

\* b > mean + (f/10)*std
ExceedsMeanBy(b, v, f) ==
    /\ DistFromMean(b, v) > 0
    /\ 100 * DistFromMean(b, v) * DistFromMean(b, v) > f * f * PairSpread(v)

\* b < mean - (f/10)*std
FallsBelowMeanBy(b, v, f) ==
    /\ DistFromMean(b, v) < 0
    /\ 100 * DistFromMean(b, v) * DistFromMean(b, v) > f * f * PairSpread(v)

NeighboursPresent(v, i) == {i - 1, i, i + 1} \subseteq PresentAt(v)

PeakRule(v, i, high, f) ==
    /\ NeighboursPresent(v, i)
    /\ Val(v[i + 1]) > Val(v[i])
    /\ Val(v[i + 1]) > Val(v[i + 2])
    /\ \/ high # None /\ Val(v[i + 1]) > Val(high)
       \/ ExceedsMeanBy(Val(v[i + 1]), v, f)

LowRule(v, i, low, f) ==
    /\ NeighboursPresent(v, i)
    /\ Val(v[i + 1]) < Val(v[i])
    /\ Val(v[i + 1]) < Val(v[i + 2])
    /\ \/ low # None /\ Val(v[i + 1]) < Val(low)
       \/ FallsBelowMeanBy(Val(v[i + 1]), v, f)

\* C1: for a series of length n >= 3 that is not all missing, an interior
\* index i is reported as a peak iff its three values are present, the middle
\* one is greater than both neighbours and it exceeds the high threshold (when
\* one is defined) or mean + sensitivity*std; as a low iff they are present,
\* the middle one is less than both neighbours and it is below the low
\* threshold (when defined) or mean - sensitivity*std.  A constant series has
\* no peak and no low.
C1_ExtremaRule ==
    (pc = "detect_return" /\ Len(values) >= 3 /\ PresentAt(values) # {}) =>
        /\ \A i \in 1..(Len(values) - 2) :
              /\ i \in Range(peaks) <=> PeakRule(values, i, high_thresh, std_factor)
              /\ i \in Range(lows) <=> LowRule(values, i, low_thresh, std_factor)
        /\ (\A j, k \in 1..Len(values) : values[j] = values[k]) =>
              peaks = << >> /\ lows = << >>

\* a call that reports a peak for the high threshold alone (the value is no
\* statistical outlier) and leaves out a value above the threshold that is no
\* local maximum
C1_Witness ==
    /\ pc = "detect_return"
    /\ high_thresh # None
    /\ \E i \in Range(peaks) : ~ExceedsMeanBy(Val(values[i + 1]), values, std_factor)
    /\ \E i \in 1..(Len(values) - 2) :
          /\ i \notin Range(peaks)
          /\ values[i + 1] # NaN
          /\ Val(values[i + 1]) > Val(high_thresh)

C2_Input ==
    /\ values = <<Some(1), Some(10), Some(1), Some(10), Some(1)>>
    /\ low_thresh = None
    /\ high_thresh = None
    /\ std_factor = 10

\* C2 as stated: for [1, 10, 1, 10, 1] without thresholds at sensitivity 1.0
\* the indices 1 and 3 are peaks and index 2 is a low
C2_AsStated ==
    (pc = "detect_return" /\ C2_Input) =>
        /\ 1 \in Range(peaks) /\ 3 \in Range(peaks)
        /\ 2 \in Range(lows)

\* C2, amended: for [1, 10, 1, 10, 1] without thresholds at sensitivity 1.0
\* the peaks are exactly the indices 1 and 3 and no low is reported (the value 1
\* at index 2 is a local minimum but not below mean - std = 4.6 - 4.409)
C2_PeaksOnly ==
    (pc = "detect_return" /\ C2_Input) =>
        /\ peaks = <<1, 3>>
        /\ lows = << >>

C2_Witness == pc = "detect_return" /\ C2_Input /\ Len(peaks) = 2

\* C5: a series of fewer than 3 values, and a series of any length whose values
\* are all missing, has no peak and no low, whatever the thresholds and the
\* sensitivity
C5_NoExtrema ==
    (pc = "detect_return"
       /\ (Len(values) < 3 \/ \A k \in 1..Len(values) : values[k] = NaN)) =>
        peaks = << >> /\ lows = << >>

\* a series of two values whose first lies above the high threshold and above
\* the second
C5_Witness ==
    /\ pc = "detect_return"
    /\ Len(values) = 2
    /\ values[1] # NaN /\ values[2] # NaN /\ high_thresh # None
    /\ Val(values[1]) > Val(high_thresh)
    /\ Val(values[1]) > Val(values[2])

StrictlyAscending(s) == \A j, k \in 1..Len(s) : j < k => s[j] < s[k]

\* C6: every reported index lies in 1..n-2, each list is strictly ascending and
\* no index is in both lists
C6_InteriorOrderedDisjoint ==
    pc = "detect_return" =>
        /\ Range(peaks) \subseteq 1..(Len(values) - 2)
        /\ Range(lows) \subseteq 1..(Len(values) - 2)
        /\ StrictlyAscending(peaks)
        /\ StrictlyAscending(lows)
        /\ Range(peaks) \cap Range(lows) = {}

\* a call that reports two peaks and a low between them
C6_Witness ==
    /\ pc = "detect_return"
    /\ Len(peaks) >= 2
    /\ \E k \in Range(lows) : peaks[1] < k /\ k < peaks[2]

----------------------------------------------------------------------------
(* Properties of the actionable-insights loop, checked under SpecInsights *)

\* the entries of kpi_summary the loop has been through
Classified == SubSeq(kpi_summary, 1, rec_i - 1)

\* the rows of the report made for the group of summary rec
RowsOf(rec) ==
    {k \in 1..Len(report_rows) :
        report_rows[k].KPI = rec.kpi /\ report_rows[k].Floor = rec.floor}

\* more than a fifth of the group's rows are extrema
Volatile(rec) == 5 * (rec.peaks + rec.lows) > rec.rows

\* C4: a summary gets a row of the report iff peaks + lows > rows * 0.2,
\* strictly; a summary of no rows gets none and a summary without extrema
\* gets none
C4_ActionableRule ==
    \A k \in 1..Len(Classified) :
        LET rec == Classified[k]
        IN  /\ RowsOf(rec) # {} <=> Volatile(rec)
            /\ rec.rows = 0 => RowsOf(rec) = {}
            /\ rec.peaks + rec.lows = 0 => RowsOf(rec) = {}

\* the loop has been through a group of 5 rows with 1 extremum (1 > 1.0 fails),
\* which has no row, and through a group of 5 rows with 2 extrema, which has one
C4_Witness ==
    /\ \E k \in 1..Len(Classified) :
          /\ Classified[k].rows = 5
          /\ Classified[k].peaks + Classified[k].lows = 1
          /\ RowsOf(Classified[k]) = {}
    /\ \E k \in 1..Len(Classified) :
          /\ Classified[k].rows = 5
          /\ Classified[k].peaks + Classified[k].lows = 2
          /\ RowsOf(Classified[k]) # {}

\* the remedy table by the remainder of the combined count
RemedyFor(combined) ==
    CASE combined % 3 = 0 -> "Follow solution 1"
      [] combined % 3 = 1 -> "Follow solution 2"
      [] combined % 3 = 2 -> "This is the reason for the error"

\* C7: the row of a summary carries the table's entry for code
\* ((peaks + lows) mod 3) + 1, which is one of the three strings of the table
\* and never absent; a combined count of 4 gives the entry of code 2
C7_RemedyFromTable ==
    \A k \in 1..Len(Classified) :
        LET rec == Classified[k]
        IN  \A r \in RowsOf(rec) :
              /\ report_rows[r].Remedy = RemedyFor(rec.peaks + rec.lows)
              /\ report_rows[r].Remedy \in
                    {"Follow solution 1", "Follow solution 2",
                     "This is the reason for the error"}
              /\ rec.peaks + rec.lows = 4 =>
                    report_rows[r].Remedy = "Follow solution 2"

\* a report whose three rows carry the three entries of the table
C7_Witness ==
    /\ pc = "done"
    /\ Len(report_rows) = 3
    /\ {report_rows[k].Remedy : k \in 1..Len(report_rows)} =
          {"Follow solution 1", "Follow solution 2",
           "This is the reason for the error"}

\* C9: the report holds a row for each actionable summary and for no other, one
\* each, in the order of the summaries
C9_OrderPreserved ==
    LET due == SelectSeq(Classified, Volatile)
    IN  /\ Len(report_rows) = Len(due)
        /\ \A k \in 1..Len(due) :
              /\ report_rows[k].KPI = due[k].kpi
              /\ report_rows[k].Floor = due[k].floor

\* a finished report of two rows, for the first and the third of three
\* summaries
C9_Witness ==
    /\ pc = "done"
    /\ Len(kpi_summary) = 3
    /\ Len(report_rows) = 2
    /\ ~Volatile(kpi_summary[2])
    /\ report_rows[1].KPI # report_rows[2].KPI

----------------------------------------------------------------------------
(* Properties of the aggregation loop, checked under Spec *)

\* the catalog's entry for a name, names compared without regard to case
EntryIgnoringCase(name) ==
    IF \E k \in 1..Len(KPI_THRESHOLDS) : lower(KPI_THRESHOLDS[k][1]) = lower(name)
    THEN KPI_THRESHOLDS[CHOOSE k \in 1..Len(KPI_THRESHOLDS) :
                           lower(KPI_THRESHOLDS[k][1]) = lower(name)][2]
    ELSE <<None, None>>

\* C3: the thresholds the aggregation loop looks up for a KPI are the catalog's
\* (low, high) entry for the name that matches it without regard to case, and
\* (None, None) only when no entry matches
C3_LookupIgnoresCase ==
    (pc = "floor_loop" /\ floor_i > 1) =>
        <<low_thresh, high_thresh>> = EntryIgnoringCase(selected_kpis[kpi_i])

\* the positions in df of the rows of a (KPI, floor) group, the KPI compared
\* without regard to case
GroupAt(df, kpi_name, floor) ==
    {k \in 1..Len(df) : lower(df[k].ckpi) = lower(kpi_name) /\ df[k].floor = floor}

\* the (KPI, floor) pairs with a row in df
PairsIn(df) == {<<lower(df[k].ckpi), df[k].floor>> : k \in 1..Len(df)}

\* the ways to list the positions G by ascending date
ByDate(df, G) ==
    {o \in [1..Cardinality(G) -> G] :
        /\ \A i, j \in 1..Cardinality(G) : o[i] = o[j] => i = j
        /\ \A i, j \in 1..Cardinality(G) : i < j => df[o[i]].date <= df[o[j]].date}

\* C8: when the aggregation loop is done, kpi_summary holds exactly one summary
\* for each (KPI, floor) pair that has a row in df_filtered (KPI compared
\* without regard to case) and none for any other pair; its rows is the size of
\* the group and its peaks and lows are the sizes of the detector's two lists
\* on the group's values in an order of ascending date; a selected KPI without
\* rows has no summary
C8_OneSummaryPerGroup ==
    (pc = "insights" /\ rec_i = 1) =>
        /\ Len(kpi_summary) = Cardinality(PairsIn(df_filtered))
        /\ {<<lower(kpi_summary[k].kpi), kpi_summary[k].floor>> :
               k \in 1..Len(kpi_summary)} = PairsIn(df_filtered)
        /\ \A k \in 1..Len(kpi_summary) :
              LET rec == kpi_summary[k]
                  G == GroupAt(df_filtered, rec.kpi, rec.floor)
                  th == lookup_thresholds(rec.kpi)
              IN  /\ rec.rows = Cardinality(G)
                  /\ rec.rows > 0
                  /\ \E o \in ByDate(df_filtered, G) :
                        LET found ==
                              detect_peaks_lows([j \in 1..Len(o) |-> df_filtered[o[j]].ave],
                                                th[1], th[2], std_factor)
                        IN  rec.peaks = Len(found[1]) /\ rec.lows = Len(found[2])
        /\ \A s \in 1..Len(selected_kpis) :
              (\A k \in 1..Len(df_filtered) :
                  lower(df_filtered[k].ckpi) # lower(selected_kpis[s]))
              => \A k \in 1..Len(kpi_summary) : kpi_summary[k].kpi # selected_kpis[s]

\* two KPIs are selected and every row is of the first floor of one of them,
\* spelled in two ways: the one summary counts 3 rows and 1 peak
C8_Witness ==
    /\ pc = "insights" /\ rec_i = 1
    /\ Len(selected_kpis) = 2
    /\ Len(kpi_summary) = 1
    /\ kpi_summary[1].rows = 3
    /\ kpi_summary[1].peaks = 1
    /\ \E j, k \in 1..Len(df_filtered) : df_filtered[j].ckpi # df_filtered[k].ckpi

\* the positions of df in the order of a stable sort by date: ascending date,
\* rows of equal date in the order they have in df
StableByDate(df) ==
    CHOOSE o \in ByDate(df, 1..Len(df)) :
        \A i, j \in 1..Len(df) :
            (i < j /\ df[o[i]].date = df[o[j]].date) => o[i] < o[j]

\* C10: the rows of a group reach the detector sorted by ascending date, rows of
\* equal date in the order they have in the filtered input
C10_StableSort ==
    (pc = "floor_loop" /\ floor_i > 1) =>
        LET group == floor_rows(df_kpi, floors[floor_i - 1])
        IN  /\ df_floor = [k \in 1..Len(group) |-> group[StableByDate(group)[k]]]
            /\ values = ave_values(df_floor)

============================================================================
